---- MODULE Spec2Model ----
(***************************************************************************)
(* A model of storycraftr's markdown persistence layer                     *)
(* (storycraftr/utils/markdown.py) and of its assistant / vector-store /   *)
(* thread wrapper (storycraftr/agent/agents.py).                           *)
(*                                                                         *)
(* Text is a sequence of tokens.  A token is either the newline "\n", the  *)
(* blank " ", or a newline-free piece of text, so that concatenation,      *)
(* prefixes, the title regex and strip() are computed on the tokens.       *)
(* A file name is a sequence of tokens too ("chapter-", digits, ".md",     *)
(* ".back", ...), so that suffixes, the chapter regex and the numeric sort *)
(* key are computed from the name.  A path is <<folder, name>> below the   *)
(* book directory.                                                         *)
(***************************************************************************)
EXTENDS Integers, Sequences, FiniteSets, TLC

VARIABLES
    fs,             \* the files below the book directory: path -> text
    dirs,           \* the folders that exist below the book directory
    assistants,     \* remote: the assistants, as assistants.list() returns them
    vector_stores,  \* remote: the vector stores, in creation order
    batch_status,   \* remote: vector store id -> status of its file batch
    threads,        \* remote: thread id -> its messages, newest first
    run,            \* remote: the run create_message started last
    nextId,         \* remote: the next opaque id the provider hands out
    pc,             \* where the running call stands ("idle" between calls)
    op,             \* the top-level operation running, or the last one run
    args,           \* its arguments
    locals,         \* the local variables of the running functions
    ret,            \* how the last call ended, and what it returned
    pre,            \* the files and the remote state when the call started
    tick,           \* parity of the time.sleep calls made so far
    calls           \* number of top-level calls made

vars == <<fs, dirs, assistants, vector_stores, batch_status, threads, run,
          nextId, pc, op, args, locals, ret, pre, tick, calls>>

fsVars == <<fs, dirs>>
remoteVars == <<assistants, vector_stores, batch_status, threads, run, nextId>>

(***************************************************************************)
(* Bounds of the model.                                                    *)
(***************************************************************************)
MaxCalls == 2
MaxLen == 12
MaxIds == 5

(***************************************************************************)
(* Tokens, names and paths.                                                *)
(***************************************************************************)
Digits == {"0", "1", "2", "3", "4", "5", "6", "7", "8", "9"}

DigitValue(d) ==
    CASE d = "0" -> 0 [] d = "1" -> 1 [] d = "2" -> 2 [] d = "3" -> 3 [] d = "4" -> 4
      [] d = "5" -> 5 [] d = "6" -> 6 [] d = "7" -> 7 [] d = "8" -> 8 [] d = "9" -> 9

\* the tokens of a name that start with a dot
DotTokens == {".md", ".back", ".txt"}
Whitespace == {"\n", " "}

RECURSIVE Join(_)
Join(toks) == IF toks = <<>> THEN "" ELSE Head(toks) \o Join(Tail(toks))

Last(s) == s[Len(s)]
Front(s) == SubSeq(s, 1, Len(s) - 1)

\* pathlib: PurePath.suffix, the last dot-component of the name, if any
Suffix(name) ==
    IF Len(name) >= 2 /\ Last(name) \in DotTokens THEN <<Last(name)>> ELSE <<>>

\* pathlib: PurePath.with_suffix, the name with its suffix replaced
WithSuffix(path, suffix) ==
    LET name == path[2]
        stem == IF Suffix(name) = <<>> THEN name ELSE Front(name)
    IN  <<path[1], stem \o suffix>>

Exists(f, path) == path \in DOMAIN f

\* str(path)
PathText(path) == <<path[1], "/">> \o path[2]

\* shutil.copyfile and open(path, "w").write(text)
CopyFile(f, src, dst) == (dst :> f[src]) @@ f
WriteFile(f, path, text) == (path :> text) @@ f

\* how a call ended: value is the text or path returned, object the remote
\* object returned
None == <<>>
NoObject == [id |-> 0]
Returned(v) == [kind |-> "returned", exc |-> "", value |-> v, object |-> NoObject]
ReturnedObject(o) == [kind |-> "returned", exc |-> "", value |-> None, object |-> o]
Raised(e) == [kind |-> "raised", exc |-> e, value |-> None, object |-> NoObject]
NoReturn == [kind |-> "none", exc |-> "", value |-> None, object |-> NoObject]

NoLocals == [name |-> "", vector_store |-> 0, file_batch |-> "", assistant |-> 0,
             run |-> "", thread |-> 0]

NoArgs == [path |-> <<>>, header |-> "", content |-> <<>>, book_name |-> <<>>,
           primary_language |-> "", translate |-> "", thread_id |-> 0, assistant |-> 0]

NoRun == [id |-> 0, thread |-> 0, status |-> "none"]

Snapshot == [fs |-> fs, dirs |-> dirs, assistants |-> assistants,
             vector_stores |-> vector_stores, batches |-> DOMAIN batch_status,
             threads |-> threads]

(***************************************************************************)
(* utils/markdown.py: save_to_markdown, append_to_markdown,                *)
(* read_from_markdown.                                                     *)
(***************************************************************************)
\* a slip: file_path.with_suffix(".back")
BackupPath_ReplacesSuffix(file_path) == WithSuffix(file_path, <<".back">>)

BackupPath(file_path) == WithSuffix(file_path, Suffix(file_path[2]) \o <<".back">>)

SaveText(header, content) == <<"# ", header, "\n", "\n">> \o content

\* a slip: the file opened with "w"
AppendText_Truncates(old, content) == <<"\n", "\n">> \o content

AppendText(old, content) == old \o <<"\n", "\n">> \o content

\* the files after save_to_markdown's backup step
BackedUp(f, file_path) ==
    IF Exists(f, file_path) THEN CopyFile(f, file_path, BackupPath(file_path)) ELSE f

save_to_markdown(file_name, header, content) ==
    /\ pc = "idle"
    /\ calls < MaxCalls
    /\ calls' = calls + 1
    /\ op' = "save_to_markdown"
    /\ args' = [NoArgs EXCEPT !.path = file_name, !.header = header, !.content = content]
    /\ pre' = Snapshot
    /\ IF file_name[1] \in dirs
         THEN /\ fs' = WriteFile(BackedUp(fs, file_name), file_name,
                                 SaveText(header, content))
              /\ ret' = Returned(PathText(file_name))
         ELSE \* open(..., "w") below a missing folder
              /\ fs' = BackedUp(fs, file_name)
              /\ ret' = Raised("FileNotFoundError")
    /\ UNCHANGED <<dirs, remoteVars, pc, locals, tick>>

append_to_markdown(folder_name, file_name, content) ==
    LET file_path == <<folder_name, file_name>> IN
    /\ pc = "idle"
    /\ calls < MaxCalls
    /\ calls' = calls + 1
    /\ op' = "append_to_markdown"
    /\ args' = [NoArgs EXCEPT !.path = file_path, !.content = content]
    /\ pre' = Snapshot
    /\ IF Exists(fs, file_path)
         THEN /\ Len(fs[file_path]) + Len(content) + 2 <= MaxLen
              /\ fs' = WriteFile(fs, file_path, AppendText(fs[file_path], content))
              /\ ret' = Returned(None)
         ELSE /\ fs' = fs
              /\ ret' = Raised("FileNotFoundError")
    /\ UNCHANGED <<dirs, remoteVars, pc, locals, tick>>

\* a slip: no existence check, a missing file reads as empty
ReadResult_NoCheck(f, file_path) ==
    Returned(IF Exists(f, file_path) THEN f[file_path] ELSE <<>>)

\* lines 106-112
ReadResult(f, file_path) ==
    IF Exists(f, file_path) THEN Returned(f[file_path]) ELSE Raised("FileNotFoundError")

read_from_markdown(folder_name, file_name) ==
    LET file_path == <<folder_name, file_name>> IN
    /\ pc = "idle"
    /\ calls < MaxCalls
    /\ calls' = calls + 1
    /\ op' = "read_from_markdown"
    /\ args' = [NoArgs EXCEPT !.path = file_path]
    /\ pre' = Snapshot
    /\ ret' = ReadResult(fs, file_path)
    /\ UNCHANGED <<fsVars, remoteVars, pc, locals, tick>>

(***************************************************************************)
(* agent/agents.py.  A book name is the sequence of the components of its  *)
(* path.  fs holds the files of the one book directory TheBook; the other  *)
(* book directories hold no files.  The folder "behaviors" of fs stands    *)
(* for the one in the working directory.                                   *)
(***************************************************************************)
TheBook == <<"books", "novel">>
BehaviorsFile == <<"behaviors", <<"default", ".txt">>>>

Pending == {"queued", "in_progress"}

\* a slip: book_name.split("/")[0]
AssistantName_FirstComponent(book_name) == Head(book_name)

\* book_name.split("/")[-1]
AssistantName(book_name) == Last(book_name)

\* glob.glob(f"{book_name}/**/*.md", recursive=True)
load_markdown_files(f, book_name) ==
    IF book_name = TheBook
      THEN {p \in DOMAIN f : /\ Len(p[2]) >= 2
                             /\ Last(p[2]) = ".md"
                             /\ Head(p[2]) \notin DotTokens}
      ELSE {}

Min(S) == CHOOSE x \in S : \A y \in S : x <= y

\* a slip: the scan passes over the first assistant listed
FirstMatch_SkipsFirst(asts, name) ==
    LET hits == {i \in 2..Len(asts) : asts[i].name = name}
    IN  IF hits = {} THEN 0 ELSE Min(hits)

\* the scan "for assistant in assistants.data: if assistant.name == name":
\* the place of the first assistant of that name, 0 when there is none
FirstMatch(asts, name) ==
    LET hits == {i \in 1..Len(asts) : asts[i].name = name}
    IN  IF hits = {} THEN 0 ELSE Min(hits)

RemoveAt(s, i) == SubSeq(s, 1, i - 1) \o SubSeq(s, i + 1, Len(s))

\* delete_assistant's loop: the first assistant of that name is deleted
AfterDelete(asts, name) ==
    IF FirstMatch(asts, name) = 0 THEN asts ELSE RemoveAt(asts, FirstMatch(asts, name))

AssistantIds(asts) == {asts[i].id : i \in 1..Len(asts)}
VectorStoreIds(vss) == {vss[i].id : i \in 1..Len(vss)}

Begin(name, a) ==
    /\ pc = "idle"
    /\ calls < MaxCalls
    /\ calls' = calls + 1
    /\ op' = name
    /\ args' = a
    /\ pre' = Snapshot

delete_assistant(book_name) ==
    /\ Begin("delete_assistant", [NoArgs EXCEPT !.book_name = book_name])
    /\ assistants' = AfterDelete(assistants, AssistantName(book_name))
    /\ ret' = Returned(None)
    /\ UNCHANGED <<fsVars, vector_stores, batch_status, threads, run, nextId, pc,
                   locals, tick>>

create_or_get_assistant(book_name) ==
    /\ Begin("create_or_get_assistant", [NoArgs EXCEPT !.book_name = book_name])
    /\ pc' = "cga_scan"
    /\ locals' = NoLocals
    /\ ret' = NoReturn
    /\ UNCHANGED <<fsVars, remoteVars, tick>>

update_agent_files(book_name, assistant) ==
    /\ Begin("update_agent_files",
             [NoArgs EXCEPT !.book_name = book_name, !.assistant = assistant])
    /\ assistants' = AfterDelete(assistants, AssistantName(book_name))
    /\ pc' = "cga_scan"
    /\ locals' = NoLocals
    /\ ret' = NoReturn
    /\ UNCHANGED <<fsVars, vector_stores, batch_status, threads, run, nextId, tick>>

\* create_or_get_assistant returns assistant a to its caller
CgaReturn(a) ==
    IF op \in {"consolidate_book_md", "consolidate_paper_md"}
      THEN pc' = "get_thread" /\ ret' = ret
      ELSE /\ pc' = "idle"
           /\ ret' = IF op = "update_agent_files" THEN Returned(None) ELSE ReturnedObject(a)

\* lines 47-76: the scan, and for a new name the vector store and the upload,
\* whose batch the call returns with status s
cga_scan ==
    /\ pc = "cga_scan"
    /\ LET name == AssistantName(args.book_name)
           i == FirstMatch(assistants, name)
       IN  IF i # 0
             THEN /\ CgaReturn(assistants[i])
                  /\ locals' = [locals EXCEPT !.name = name, !.assistant = assistants[i].id]
                  /\ UNCHANGED <<vector_stores, batch_status, nextId>>
             ELSE /\ nextId < MaxIds    \* room for the assistant's id too
                  /\ \E s \in Pending \cup {"completed", "failed", "cancelled"} :
                       /\ batch_status' = (nextId :> s) @@ batch_status
                       /\ locals' = [locals EXCEPT !.name = name,
                                                   !.vector_store = nextId,
                                                   !.file_batch = s]
                  /\ vector_stores' = Append(vector_stores,
                        [id |-> nextId, name |-> args.book_name \o <<" Docs">>,
                         files |-> load_markdown_files(fs, args.book_name)])
                  /\ nextId' = nextId + 1
                  /\ pc' = "cga_wait"
                  /\ ret' = ret
    /\ UNCHANGED <<fsVars, assistants, threads, run, op, args, pre, tick, calls>>

\* lines 78-82: one turn of the wait on the file batch
cga_sleep ==
    /\ pc = "cga_wait"
    /\ locals.file_batch \in Pending
    /\ tick' = 1 - tick
    /\ UNCHANGED <<fsVars, remoteVars, pc, op, args, locals, ret, pre, calls>>

\* assistants.create followed by assistants.update of its tool_resources
NewAssistant(id, name, instructions, vector_store) ==
    [id |-> id, name |-> name, instructions |-> instructions,
     vector_store_ids |-> <<vector_store>>]

\* lines 84-114: the assistant is created and tied to the vector store
cga_create ==
    /\ pc = "cga_wait"
    /\ locals.file_batch \notin Pending
    /\ IF ~Exists(fs, BehaviorsFile)
         THEN /\ pc' = "idle"
              /\ ret' = Raised("FileNotFoundError")
              /\ UNCHANGED <<assistants, nextId, locals>>
         ELSE /\ LET a == NewAssistant(nextId, locals.name, fs[BehaviorsFile],
                                       locals.vector_store)
                 IN  /\ assistants' = <<a>> \o assistants
                     /\ CgaReturn(a)
              /\ locals' = [locals EXCEPT !.assistant = nextId]
              /\ nextId' = nextId + 1
    /\ UNCHANGED <<fsVars, vector_stores, batch_status, threads, run, op, args, pre,
                   tick, calls>>

\* the provider works on a file batch
batch_progress ==
    /\ \E v \in DOMAIN batch_status, s \in {"in_progress", "completed", "failed", "cancelled"} :
         /\ batch_status[v] \in Pending
         /\ batch_status[v] # s
         /\ batch_status[v] = "in_progress" => s # "in_progress"
         /\ batch_status' = [batch_status EXCEPT ![v] = s]
    /\ UNCHANGED <<fsVars, assistants, vector_stores, threads, run, nextId, pc, op,
                   args, locals, ret, pre, tick, calls>>

get_thread ==
    /\ Begin("get_thread", NoArgs)
    /\ nextId <= MaxIds
    /\ threads' = (nextId :> <<>>) @@ threads
    /\ nextId' = nextId + 1
    /\ ret' = ReturnedObject([id |-> nextId])    \* the Thread object
    /\ UNCHANGED <<fsVars, assistants, vector_stores, batch_status, run, pc, locals, tick>>

\* get_thread(book_path), as the consolidations call it: get_thread takes
\* no argument
get_thread_book_path ==
    /\ pc = "get_thread"
    /\ pc' = "idle"
    /\ ret' = Raised("TypeError")
    /\ UNCHANGED <<fsVars, remoteVars, op, args, locals, pre, tick, calls>>

\* lines 137-150: the prompt, with the file's text when file_path names a file
MessageContent(f, content, file_path) ==
    IF file_path # None /\ Exists(f, file_path)
      THEN content \o <<"\n", "\n", "Here is the existing content to improve:", "\n">>
                   \o f[file_path]
      ELSE content

UserMessage(text) == [role |-> "user", text |-> text, run_id |-> 0]
AssistantMessage(text, run_id) == [role |-> "assistant", text |-> text, run_id |-> run_id]

\* lines 153-161: the user message is posted and the run started
create_message(thread_id, content, assistant, file_path) ==
    /\ Begin("create_message",
             [NoArgs EXCEPT !.thread_id = thread_id, !.content = content,
                            !.assistant = assistant, !.path = file_path])
    /\ thread_id \in DOMAIN threads
    /\ assistant \in AssistantIds(assistants)
    /\ nextId <= MaxIds
    /\ threads' = [threads EXCEPT ![thread_id] =
                      <<UserMessage(MessageContent(fs, content, file_path))>> \o @]
    /\ run' = [id |-> nextId, thread |-> thread_id, status |-> "queued"]
    /\ nextId' = nextId + 1
    /\ locals' = [NoLocals EXCEPT !.run = "queued", !.thread = thread_id]
    /\ pc' = "cm_poll"
    /\ ret' = NoReturn
    /\ UNCHANGED <<fsVars, assistants, vector_stores, batch_status, tick>>

\* lines 170-177: runs.retrieve and the sleep
cm_poll ==
    /\ pc = "cm_poll"
    /\ locals.run \in Pending
    /\ locals' = [locals EXCEPT !.run = run.status]
    /\ tick' = 1 - tick
    /\ UNCHANGED <<fsVars, remoteVars, pc, op, args, ret, pre, calls>>

\* messages.list(thread_id).data[0].content[0].text.value
FirstMessageText(msgs) == msgs[1].text

\* lines 184-186
cm_return ==
    /\ pc = "cm_poll"
    /\ locals.run \notin Pending
    /\ ret' = Returned(FirstMessageText(threads[locals.thread]))
    /\ pc' = "idle"
    /\ UNCHANGED <<fsVars, remoteVars, op, args, locals, pre, tick, calls>>

Reply == <<"reply">>

\* the provider works on the run: a run that completes leaves the
\* assistant's reply in the thread, a run that ends otherwise leaves none
run_progress ==
    /\ run.status \in Pending
    /\ \E s \in {"in_progress", "completed", "failed", "cancelled", "expired"} :
         /\ run.status # s
         /\ run' = [run EXCEPT !.status = s]
         /\ threads' = IF s = "completed"
                         THEN [threads EXCEPT ![run.thread] =
                                 <<AssistantMessage(Reply, run.id)>> \o @]
                         ELSE threads
    /\ UNCHANGED <<fsVars, assistants, vector_stores, batch_status, nextId, pc, op,
                   args, locals, ret, pre, tick, calls>>

(***************************************************************************)
(* utils/markdown.py: consolidate_book_md.  translate = "" stands for the  *)
(* default None (both are false in "if translate").                        *)
(***************************************************************************)
Cover == <<"cover", ".md">>
BackCover == <<"back-cover", ".md">>
Epilogue == <<"epilogue", ".md">>
NewPage == <<"\n", "\\newpage", "\n">>

BookOutputPath(primary_language, translate) ==
    <<"book", <<"book-", IF translate = "" THEN primary_language ELSE translate, ".md">>>>

\* the number of digits that follow name[from - 1]
RECURSIVE DigitRun(_, _)
DigitRun(name, from) ==
    IF from <= Len(name) /\ name[from] \in Digits THEN 1 + DigitRun(name, from + 1) ELSE 0

\* re.match(r"chapter-\d+\.md", name): a match of the START of the name
ChapterMatch(name) ==
    /\ Len(name) >= 3
    /\ name[1] = "chapter-"
    /\ DigitRun(name, 2) >= 1
    /\ Len(name) >= 2 + DigitRun(name, 2)
    /\ name[2 + DigitRun(name, 2)] = ".md"

RECURSIVE DigitsValue(_, _, _)
DigitsValue(name, from, n) ==
    IF n = 0 THEN 0
    ELSE DigitsValue(name, from, n - 1) * 10 + DigitValue(name[from + n - 1])

\* int(re.findall(r"\d+", name)[0]) of a name ChapterMatch accepts
ChapterKey(name) == DigitsValue(name, 2, DigitRun(name, 2))

\* sorted(..., key=...) of the directory's matching entries: iterdir gives
\* them in any order and the sort is stable, so equal keys come in any order
ChapterFiles(f) ==
    LET found == {p \in DOMAIN f : p[1] = "chapters" /\ ChapterMatch(p[2])}
        n == Cardinality(found)
    IN  {s \in [1..n -> found] :
            /\ \A i, j \in 1..n : i # j => s[i] # s[j]
            /\ \A i, j \in 1..n : i < j => ChapterKey(s[i][2]) <= ChapterKey(s[j][2])}

\* lines 143-161: files_to_process, for one order of the chapters
FilesToProcess(f, chapter_files) ==
    SelectSeq(<<<<"chapters", Cover>>, <<"chapters", BackCover>>>>, LAMBDA p : Exists(f, p))
      \o chapter_files
      \o SelectSeq(<<<<"chapters", Epilogue>>>>, LAMBDA p : Exists(f, p))

\* lines 185-210 without translation: what the loop writes
RECURSIVE BookText(_, _)
BookText(f, files) ==
    IF files = <<>> THEN <<>> ELSE f[Head(files)] \o NewPage \o BookText(f, Tail(files))

\* lines 129-139: the output folder is made and the assistant asked for,
\* whatever translate is
consolidate_book_md(book_path, primary_language, translate) ==
    /\ Begin("consolidate_book_md",
             [NoArgs EXCEPT !.book_name = book_path,
                            !.primary_language = primary_language,
                            !.translate = translate])
    /\ dirs' = dirs \cup {"book"}
    /\ pc' = "cga_scan"
    /\ locals' = NoLocals
    /\ ret' = NoReturn
    /\ UNCHANGED <<fs, remoteVars, tick>>

(***************************************************************************)
(* utils/markdown.py: consolidate_paper_md.                                *)
(***************************************************************************)
Section(stem) == <<"sections", <<stem, ".md">>>>

SectionHead == <<Section("abstract"), Section("introduction")>>
SectionTail == <<Section("related_work"), Section("methodology"), Section("results"),
                 Section("discussion"), Section("conclusion")>>

\* the order of the tokens as strings
TokenRank(t) ==
    CASE t = ".back" -> 1 [] t = ".md" -> 2 [] t = ".txt" -> 3
      [] t \in Digits -> 10 + DigitValue(t)
      [] t = "a" -> 30 [] t = "b" -> 31 [] t = "custom_" -> 40

\* a < b for names as strings; no token is the start of another
RECURSIVE LexLess(_, _)
LexLess(a, b) ==
    IF a = <<>> THEN b # <<>>
    ELSE IF b = <<>> THEN FALSE
    ELSE IF Head(a) = Head(b) THEN LexLess(Tail(a), Tail(b))
    ELSE TokenRank(Head(a)) < TokenRank(Head(b))

\* sorted(custom_sections)
RECURSIVE Sorted(_)
Sorted(S) ==
    IF S = {} THEN <<>>
    ELSE LET m == CHOOSE x \in S : \A y \in S : x = y \/ LexLess(x[2], y[2])
         IN  <<m>> \o Sorted(S \ {m})

\* lines 249-254
CustomSections(f, d) ==
    IF "sections" \in d
      THEN {p \in DOMAIN f : /\ p[1] = "sections"
                             /\ Head(p[2]) = "custom_"
                             /\ Suffix(p[2]) = <<".md">>}
      ELSE {}

\* lines 243-266
SectionOrder(f, d) == SectionHead \o Sorted(CustomSections(f, d)) \o SectionTail

NoConfig == [present |-> FALSE, book_name |-> "", authors |-> <<>>, keywords |-> <<>>]

RECURSIVE AuthorLines(_)
AuthorLines(authors) ==
    IF authors = <<>> THEN <<>>
    ELSE <<"- ", Head(authors), "\n">> \o AuthorLines(Tail(authors))

\* ", ".join(keywords)
RECURSIVE JoinComma(_)
JoinComma(keywords) ==
    IF Len(keywords) <= 1 THEN keywords
    ELSE <<Head(keywords), ", ">> \o JoinComma(Tail(keywords))

\* lines 272-292: the title and metadata of the config
ConfigHeader(config) ==
    IF ~config.present THEN <<>>
    ELSE <<"# ", config.book_name, "\n", "\n">>
         \o (IF config.authors # <<>>
               THEN <<"## Authors", "\n", "\n">> \o AuthorLines(config.authors) ELSE <<>>)
         \o <<"\n">>
         \o (IF config.keywords # <<>>
               THEN <<"## Keywords", "\n", "\n">> \o JoinComma(config.keywords) \o <<"\n", "\n">>
               ELSE <<>>)

FirstNewline(text) == Min({i \in 1..Len(text) : text[i] = "\n"})

\* re.sub(r"^#.*\n", "", content): a first line that starts with # is removed
StripTitle(text) ==
    IF text # <<>> /\ Head(text) \in {"# ", "## Authors", "## Keywords"}
                   /\ \E i \in 1..Len(text) : text[i] = "\n"
      THEN SubSeq(text, FirstNewline(text) + 1, Len(text))
      ELSE text

\* str.strip()
RECURSIVE Strip(_)
Strip(text) ==
    IF text = <<>> THEN text
    ELSE IF Head(text) \in Whitespace THEN Strip(Tail(text))
    ELSE IF Last(text) \in Whitespace THEN Strip(Front(text))
    ELSE text

\* lines 302-320 without translation
RECURSIVE SectionsText(_, _)
SectionsText(f, order) ==
    IF order = <<>> THEN <<>>
    ELSE (IF Exists(f, Head(order))
            THEN Strip(StripTitle(f[Head(order)])) \o <<"\n", "\n">> ELSE <<>>)
         \o SectionsText(f, Tail(order))

PaperOutputPath(primary_language, translate) ==
    <<"output", <<"paper-", IF translate = "" THEN primary_language ELSE translate, ".md">>>>

\* config is what load_book_config(book_path) returns
consolidate_paper_md(book_path, primary_language, translate, config) ==
    /\ Begin("consolidate_paper_md",
             [NoArgs EXCEPT !.book_name = book_path,
                            !.primary_language = primary_language,
                            !.translate = translate])
    /\ dirs' = dirs \cup {"output"}
    /\ locals' = NoLocals
    /\ IF translate # ""
         THEN /\ pc' = "cga_scan"
              /\ ret' = NoReturn
              /\ fs' = fs
         ELSE /\ pc' = "idle"
              /\ fs' = WriteFile(fs, PaperOutputPath(primary_language, translate),
                                 ConfigHeader(config)
                                   \o SectionsText(fs, SectionOrder(fs, dirs)))
              /\ ret' = Returned(PathText(PaperOutputPath(primary_language, translate)))
    /\ UNCHANGED <<remoteVars, tick>>

(***************************************************************************)
(* The files and arguments the persistence layer is exercised with.        *)
(***************************************************************************)
Chapter1 == <<"chapter-", "1", ".md">>
Chapter1Back == <<"chapter-", "1", ".md", ".back">>
Notes == <<"notes">>

MdPaths == {<<"chapters", Chapter1>>, <<"chapters", Chapter1Back>>,
            <<"chapters", Notes>>, <<"drafts", Chapter1>>}
MdHeaders == {"Title"}
MdContents == {<<"new">>, <<"more", "\n">>}

\* the text a file holds before the program first touches it
InitText(path) == <<"# ", "Old", "\n", "\n", Join(path[2])>>

InitFs(paths) == [p \in paths |-> InitText(p)]

InitIdle ==
    /\ pc = "idle"
    /\ op = "none"
    /\ args = NoArgs
    /\ locals = NoLocals
    /\ ret = NoReturn
    /\ tick = 0
    /\ calls = 0

InitNoRemote ==
    /\ assistants = <<>>
    /\ vector_stores = <<>>
    /\ batch_status = <<>>
    /\ threads = <<>>
    /\ run = NoRun
    /\ nextId = 1

InitMarkdown ==
    /\ dirs = {"chapters"}
    /\ \E paths \in SUBSET {p \in MdPaths : p[1] \in dirs} : fs = InitFs(paths)
    /\ InitNoRemote
    /\ InitIdle
    /\ pre = Snapshot

NextMarkdown ==
    \/ \E p \in MdPaths, h \in MdHeaders, c \in MdContents : save_to_markdown(p, h, c)
    \/ \E p \in MdPaths, c \in MdContents : append_to_markdown(p[1], p[2], c)
    \/ \E p \in MdPaths : read_from_markdown(p[1], p[2])

SpecMarkdown == InitMarkdown /\ [][NextMarkdown]_vars

(***************************************************************************)
(* The remote states and arguments the agent wrapper is exercised with.    *)
(* The account may already hold assistants, under any names.               *)
(***************************************************************************)
BookNames == {TheBook, <<"drafts", "novel">>, <<"books", "paper">>}
InitNames == {<<>>, <<"novel">>, <<"paper">>, <<"novel", "novel">>,
              <<"novel", "paper">>, <<"paper", "novel">>}
Prompts == {<<"prompt">>}
FilePaths == {None, <<"chapters", Chapter1>>, <<"chapters", Notes>>}

\* an assistant the account held before the program ran
OldAssistant(i, name) ==
    [id |-> 100 + i, name |-> name, instructions |-> <<"old">>, vector_store_ids |-> <<>>]

InitRemote(names, msgs) ==
    /\ assistants = [i \in 1..Len(names) |-> OldAssistant(i, names[i])]
    /\ vector_stores = <<>>
    /\ batch_status = <<>>
    /\ threads = (200 :> msgs)
    /\ run = NoRun
    /\ nextId = 1

InitAgents ==
    /\ dirs = {"chapters", "behaviors"}
    /\ \E b \in SUBSET {BehaviorsFile} :
         fs = InitFs({<<"chapters", Chapter1>>, <<"chapters", Chapter1Back>>} \cup b)
    /\ \E names \in InitNames,
          msgs \in {<<>>, <<AssistantMessage(<<"earlier">>, 0 - 1), UserMessage(<<"hello">>)>>} :
         InitRemote(names, msgs)
    /\ InitIdle
    /\ pre = Snapshot

Program ==
    \/ cga_scan
    \/ cga_sleep
    \/ cga_create
    \/ cm_poll
    \/ cm_return

Provider ==
    \/ batch_progress
    \/ run_progress

NextAgents ==
    \/ \E b \in BookNames : create_or_get_assistant(b)
    \/ \E b \in BookNames : delete_assistant(b)
    \/ \E b \in BookNames, a \in AssistantIds(assistants) : update_agent_files(b, a)
    \/ get_thread
    \/ \E t \in DOMAIN threads, c \in Prompts, a \in AssistantIds(assistants),
          f \in FilePaths : create_message(t, c, a, f)
    \/ Program
    \/ Provider

SpecAgents == InitAgents /\ [][NextAgents]_vars

\* the interpreter keeps running the call, and the provider keeps working
Fairness ==
    /\ WF_vars(cga_scan) /\ WF_vars(cga_sleep) /\ WF_vars(cga_create)
    /\ WF_vars(cm_poll) /\ WF_vars(cm_return)
    /\ WF_vars(batch_progress) /\ WF_vars(run_progress)

FairSpecAgents == SpecAgents /\ Fairness

(***************************************************************************)
(* The book and paper folders the consolidations are exercised with.       *)
(***************************************************************************)
ChapterNames == {Cover, <<"chapter-", "2", ".md">>, <<"chapter-", "1", "0", ".md">>,
                 <<"chapter-", "2", ".md", ".back">>, Epilogue}
SectionNames == {<<"abstract", ".md">>, <<"custom_", "2", ".md">>,
                 <<"custom_", "1", "0", ".md">>, <<"custom_", "a", ".md", ".back">>,
                 <<"conclusion", ".md">>}
Languages == {"en"}
Translations == {"", "es"}
Configs == {NoConfig,
            [present |-> TRUE, book_name |-> "T", authors |-> <<"A">>,
             keywords |-> <<"k", "w">>]}

InitConsolidate ==
    /\ \E c \in SUBSET ChapterNames, s \in SUBSET SectionNames, d \in SUBSET {"sections"} :
         /\ c = ChapterNames \/ s = SectionNames
         /\ s # {} => d # {}
         /\ dirs = {"chapters", "behaviors"} \cup d
         /\ fs = InitFs({<<"chapters", n>> : n \in c} \cup {<<"sections", n>> : n \in s}
                        \cup {BehaviorsFile})
    /\ \E names \in {<<>>, <<"novel">>} : InitRemote(names, <<>>)
    /\ InitIdle
    /\ pre = Snapshot

NextConsolidate ==
    \/ \E l \in Languages, t \in Translations : consolidate_book_md(TheBook, l, t)
    \/ \E l \in Languages, t \in Translations, c \in Configs :
         consolidate_paper_md(TheBook, l, t, c)
    \/ cga_scan
    \/ cga_sleep
    \/ cga_create
    \/ get_thread_book_path
    \/ batch_progress

SpecConsolidate == InitConsolidate /\ [][NextConsolidate]_vars

(***************************************************************************)
(* The chapters folder that is saved into before the book is consolidated. *)
(* It starts without any '.back' file: those are save_to_markdown's.       *)
(***************************************************************************)
Chapter2 == <<"chapter-", "2", ".md">>
SavedChapters == {<<"chapters", Chapter1>>, <<"chapters", Chapter2>>, <<"chapters", Cover>>}

InitBook ==
    /\ dirs = {"chapters", "behaviors"}
    /\ \E c \in SUBSET SavedChapters : fs = InitFs(c \cup {BehaviorsFile})
    /\ \E names \in {<<>>, <<"novel">>} : InitRemote(names, <<>>)
    /\ InitIdle
    /\ pre = Snapshot

NextBook ==
    \/ \E p \in SavedChapters, h \in MdHeaders, c \in MdContents : save_to_markdown(p, h, c)
    \/ \E l \in Languages, t \in Translations : consolidate_book_md(TheBook, l, t)
    \/ cga_scan
    \/ cga_sleep
    \/ cga_create
    \/ get_thread_book_path
    \/ batch_progress

SpecBook == InitBook /\ [][NextBook]_vars

(***************************************************************************)
(* The assistant lifecycle on its own: the account starts with at most one *)
(* assistant per name, and only create_or_get_assistant, delete_assistant  *)
(* and update_agent_files are called, one after the other.                 *)
(***************************************************************************)
UniqueInitNames == {<<>>, <<"novel">>, <<"paper">>, <<"novel", "paper">>,
                    <<"paper", "novel">>, <<"other", "paper">>}

InitLifecycle ==
    /\ dirs = {"chapters", "behaviors"}
    /\ \E b \in SUBSET {BehaviorsFile} : fs = InitFs({<<"chapters", Chapter1>>} \cup b)
    /\ \E names \in UniqueInitNames : InitRemote(names, <<>>)
    /\ InitIdle
    /\ pre = Snapshot

NextLifecycle ==
    \/ \E b \in BookNames : create_or_get_assistant(b)
    \/ \E b \in BookNames : delete_assistant(b)
    \/ \E b \in BookNames, a \in AssistantIds(assistants) : update_agent_files(b, a)
    \/ cga_scan
    \/ cga_sleep
    \/ cga_create
    \/ batch_progress

SpecLifecycle == InitLifecycle /\ [][NextLifecycle]_vars

(***************************************************************************)
(* The properties.                                                         *)
(***************************************************************************)
Range(s) == {s[i] : i \in 1..Len(s)}
IsPrefix(a, b) == Len(a) <= Len(b) /\ SubSeq(b, 1, Len(a)) = a

\* '<file>.back'
DotBack(path) == <<path[1], path[2] \o <<".back">>>>

\* C1: after save_to_markdown on a file that existed, '<file>.back' holds the
\* text the file had just before the call and the file holds
\* '# <header>\n\n<content>'; after save_to_markdown on a file that did not
\* exist, '<file>.back' is neither created nor modified.
C1_SaveBacksUpBeforeOverwrite ==
    op = "save_to_markdown" =>
        LET p == args.path
            b == DotBack(p)
        IN  IF p \in DOMAIN pre.fs
              THEN /\ ret.kind = "returned"
                   /\ b \in DOMAIN fs
                   /\ fs[b] = pre.fs[p]
                   /\ fs[p] = <<"# ", args.header, "\n", "\n">> \o args.content
              ELSE /\ b \in DOMAIN fs <=> b \in DOMAIN pre.fs
                   /\ b \in DOMAIN pre.fs => fs[b] = pre.fs[b]

\* a save over an existing file whose '.back' held another text
C1_Witness ==
    /\ op = "save_to_markdown"
    /\ args.path \in DOMAIN pre.fs
    /\ DotBack(args.path) \in DOMAIN pre.fs
    /\ pre.fs[DotBack(args.path)] # pre.fs[args.path]
    /\ fs[DotBack(args.path)] = pre.fs[args.path]
    /\ fs[args.path] # pre.fs[args.path]

\* C2: append_to_markdown on a missing file raises FileNotFoundError and
\* changes no file or folder; on an existing file the prior text stays as a
\* prefix, '\n\n<content>' is added at the end, and no other file is
\* created or changed.
C2_AppendNeedsExistingFile ==
    op = "append_to_markdown" =>
        LET p == args.path
        IN  IF p \notin DOMAIN pre.fs
              THEN /\ ret.kind = "raised"
                   /\ ret.exc = "FileNotFoundError"
                   /\ fs = pre.fs
                   /\ dirs = pre.dirs
              ELSE /\ ret.kind = "returned"
                   /\ IsPrefix(pre.fs[p], fs[p])
                   /\ fs[p] = pre.fs[p] \o <<"\n", "\n">> \o args.content
                   /\ DOMAIN fs = DOMAIN pre.fs
                   /\ \A q \in DOMAIN fs \ {p} : fs[q] = pre.fs[q]

\* an append to a file that does not exist, while other files do
C2_Witness ==
    /\ op = "append_to_markdown"
    /\ args.path \notin DOMAIN pre.fs
    /\ ret.kind = "raised"
    /\ DOMAIN pre.fs # {}

\* an append to a file that exists
C2_WitnessAppended ==
    /\ op = "append_to_markdown"
    /\ args.path \in DOMAIN pre.fs
    /\ ret.kind = "returned"
    /\ Len(fs[args.path]) > Len(pre.fs[args.path])

\* C4: read_from_markdown never changes a file or folder; on a missing path
\* it raises FileNotFoundError, on an existing path it returns the file's
\* text.
C4_ReadOnlyWhenExists ==
    op = "read_from_markdown" =>
        /\ fs = pre.fs
        /\ dirs = pre.dirs
        /\ IF args.path \in DOMAIN pre.fs
             THEN ret.kind = "returned" /\ ret.value = fs[args.path]
             ELSE ret.kind = "raised" /\ ret.exc = "FileNotFoundError"

\* a read of a missing path, after a call that changed the files
C4_Witness ==
    /\ op = "read_from_markdown"
    /\ args.path \notin DOMAIN fs
    /\ ret.kind = "raised"
    /\ calls = 2
    /\ fs # InitFs(DOMAIN fs)

\* C5: create_or_get_assistant looks for an assistant of the name (the last
\* component of book_name).  If one existed, no assistant, vector store or
\* file batch is created and the call returns the first such assistant.  If
\* none existed, at most one vector store and one assistant are ever created,
\* and when the call returns exactly one vector store and exactly one
\* assistant, of that name, were created, the assistants of before are all
\* kept, and the returned assistant is the new one, tied to the new vector
\* store.
C5_CreateOrGet ==
    op = "create_or_get_assistant" =>
        LET name == Last(args.book_name)
            had == {i \in 1..Len(pre.assistants) : pre.assistants[i].name = name}
            newA == {a \in Range(assistants) : a.id \notin AssistantIds(pre.assistants)}
            newV == {v \in Range(vector_stores) : v.id \notin VectorStoreIds(pre.vector_stores)}
            returned == pc = "idle" /\ ret.kind = "returned"
        IN  IF had # {}
              THEN /\ assistants = pre.assistants
                   /\ vector_stores = pre.vector_stores
                   /\ DOMAIN batch_status = pre.batches
                   /\ returned => ret.object = pre.assistants[Min(had)]
              ELSE /\ Cardinality(newV) <= 1
                   /\ Cardinality(newA) <= 1
                   /\ Len(vector_stores) = Len(pre.vector_stores) + Cardinality(newV)
                   /\ Len(assistants) = Len(pre.assistants) + Cardinality(newA)
                   /\ Range(pre.assistants) \subseteq Range(assistants)
                   /\ returned =>
                        /\ Cardinality(newV) = 1
                        /\ Cardinality(newA) = 1
                        /\ \A a \in newA :
                             /\ a.name = name
                             /\ ret.object = a
                             /\ \A v \in newV : a.vector_store_ids = <<v.id>>

\* a call that found no assistant of the name, among others, and returned
C5_Witness ==
    /\ op = "create_or_get_assistant"
    /\ pc = "idle"
    /\ ret.kind = "returned"
    /\ pre.assistants # <<>>
    /\ \A a \in Range(pre.assistants) : a.name # Last(args.book_name)
    /\ ret.object.id \notin AssistantIds(pre.assistants)

\* a call that found the assistant
C5_WitnessFound ==
    /\ op = "create_or_get_assistant"
    /\ pc = "idle"
    /\ ret.kind = "returned"
    /\ ret.object \in Range(pre.assistants)

\* C6: once the remote file batch has left 'queued'/'in_progress', the wait
\* of create_or_get_assistant ends, whatever status the upload returned.
C6_WaitEndsOnceBatchIsDone ==
    (pc = "cga_wait" /\ batch_status[locals.vector_store] \notin Pending)
        ~> (pc # "cga_wait")

\* C7: the text create_message returns is a reply of the assistant made by
\* the run the call started, whatever status that run ended with.
C7_ReturnsReplyOfItsRun ==
    (op = "create_message" /\ pc = "idle" /\ ret.kind = "returned") =>
        \E m \in Range(threads[args.thread_id]) :
            /\ m.role = "assistant"
            /\ m.run_id = run.id
            /\ m.text = ret.value

\* C10: when update_agent_files returns, the assistant found under the book's
\* name was created during the call and is tied to a vector store, created
\* during the call, of the book's current markdown files; and no assistant
\* that had the name before the call is left.
C10_UpdateReplacesAssistant ==
    (op = "update_agent_files" /\ pc = "idle" /\ ret.kind = "returned") =>
        LET name == Last(args.book_name)
            i == FirstMatch(assistants, name)
        IN  /\ i # 0
            /\ assistants[i].id \notin AssistantIds(pre.assistants)
            /\ \E v \in Range(vector_stores) :
                 /\ v.id \notin VectorStoreIds(pre.vector_stores)
                 /\ assistants[i].vector_store_ids = <<v.id>>
                 /\ v.files = load_markdown_files(fs, args.book_name)
            /\ \A a \in Range(pre.assistants) :
                 a.name = name => a.id \notin AssistantIds(assistants)

\* the names 'chapter-<n>.md', and the n of one
IsChapterName(name) ==
    /\ Len(name) >= 3
    /\ name[1] = "chapter-"
    /\ DigitRun(name, 2) = Len(name) - 2
    /\ Last(name) = ".md"

ChapterNumber(name) == DigitsValue(name, 2, Len(name) - 2)

\* cover, back-cover, the chapters by ascending n, epilogue: those that exist
ExpectedBookOrders(f) ==
    LET chapters == {p \in DOMAIN f : p[1] = "chapters" /\ IsChapterName(p[2])}
        n == Cardinality(chapters)
        ascending == {s \in [1..n -> chapters] :
                        /\ \A i, j \in 1..n : i # j => s[i] # s[j]
                        /\ \A i, j \in 1..n :
                             i < j => ChapterNumber(s[i][2]) <= ChapterNumber(s[j][2])}
        optional(name) == IF <<"chapters", name>> \in DOMAIN f
                            THEN <<<<"chapters", name>>>> ELSE <<>>
    IN  {optional(Cover) \o optional(BackCover) \o s \o optional(Epilogue) : s \in ascending}

\* each unit followed by '\n\\newpage\n'
RECURSIVE UnitsText(_, _)
UnitsText(f, order) ==
    IF order = <<>> THEN <<>>
    ELSE f[Head(order)] \o <<"\n", "\\newpage", "\n">> \o UnitsText(f, Tail(order))

\* C3: when consolidate_book_md has ended, it has returned and the output file
\* holds cover.md, back-cover.md, the chapter-<n>.md by ascending n and
\* epilogue.md, those that exist, each once and followed by '\n\\newpage\n'.
C3_BookIsOrderedConcatenation ==
    (op = "consolidate_book_md" /\ pc = "idle") =>
        LET out == <<"book", <<"book-", IF args.translate # "" THEN args.translate
                                        ELSE args.primary_language, ".md">>>>
        IN  /\ ret.kind = "returned"
            /\ out \in DOMAIN fs
            /\ args.translate = "" =>
                 \E order \in ExpectedBookOrders(pre.fs) : fs[out] = UnitsText(pre.fs, order)

\* the sections of a text, each known by the last token of its file's text
EmittedSections(f, text) ==
    SelectSeq(text, LAMBDA t : \E p \in DOMAIN f : p[1] = "sections" /\ t = Last(f[p]))

\* abstract, introduction, the custom_*.md by ascending file name, related_work,
\* methodology, results, discussion, conclusion: those that exist
ExpectedSections(f) ==
    LET custom == {p \in DOMAIN f : /\ p[1] = "sections"
                                    /\ Head(p[2]) = "custom_"
                                    /\ Len(p[2]) >= 2
                                    /\ Last(p[2]) = ".md"}
        order == <<Section("abstract"), Section("introduction")>> \o Sorted(custom)
                   \o <<Section("related_work"), Section("methodology"),
                        Section("results"), Section("discussion"), Section("conclusion")>>
        there == SelectSeq(order, LAMBDA p : p \in DOMAIN f)
    IN  [i \in 1..Len(there) |-> Last(f[there[i]])]

PaperWrittenInOrder ==
    LET out == <<"output", <<"paper-", IF args.translate # "" THEN args.translate
                                       ELSE args.primary_language, ".md">>>>
    IN  /\ ret.kind = "returned"
        /\ out \in DOMAIN fs
        /\ EmittedSections(pre.fs, fs[out]) = ExpectedSections(pre.fs)

\* C8: when consolidate_paper_md has ended, it has returned and
\* output/paper-<translate>.md (output/paper-<primary_language>.md without
\* translate) holds the sections that exist, each once, in the order abstract,
\* introduction, custom_*.md by ascending file name, related_work,
\* methodology, results, discussion, conclusion.
C8_PaperSectionsInOrder ==
    (op = "consolidate_paper_md" /\ pc = "idle") => PaperWrittenInOrder

\* the part of C8 about a consolidation without translate
C8_WithoutTranslate ==
    (op = "consolidate_paper_md" /\ pc = "idle" /\ args.translate = "") => PaperWrittenInOrder

\* C9: during and after a consolidation without translate the remote
\* assistants, vector stores and threads are those of before the call.
C9_NoRemoteChangeWithoutTranslate ==
    (op \in {"consolidate_book_md", "consolidate_paper_md"} /\ args.translate = "") =>
        /\ assistants = pre.assistants
        /\ vector_stores = pre.vector_stores
        /\ threads = pre.threads

\* the part of C9 about consolidate_paper_md
C9_PaperWithoutTranslate ==
    (op = "consolidate_paper_md" /\ args.translate = "") =>
        /\ assistants = pre.assistants
        /\ vector_stores = pre.vector_stores
        /\ threads = pre.threads
        /\ DOMAIN batch_status = pre.batches

C11_NoBookWritten ==
    op = "consolidate_book_md" => (fs = pre.fs /\ (pc = "idle" => ret.kind = "raised"))

UniqueByName(asts) == \A i, j \in 1..Len(asts) : asts[i].name = asts[j].name => i = j

\* the assistants of before the call that are gone
Removed == {a \in Range(pre.assistants) : a.id \notin AssistantIds(assistants)}

\* C12: from an account with at most one assistant per name, through every
\* sequence of create_or_get_assistant, delete_assistant and
\* update_agent_files calls there is at most one assistant per name;
\* delete_assistant removes at most one assistant, of the name (the last
\* component of book_name), keeps the others in place and touches no vector
\* store or file batch; the delete_assistant inside update_agent_files
\* removes at most one assistant of before, and no vector store.
C12_OneAssistantPerName ==
    /\ UniqueByName(assistants)
    /\ op = "delete_assistant" =>
         /\ Cardinality(Removed) <= 1
         /\ \A a \in Removed : a.name = Last(args.book_name)
         /\ assistants = SelectSeq(pre.assistants, LAMBDA a : a \notin Removed)
         /\ vector_stores = pre.vector_stores
         /\ DOMAIN batch_status = pre.batches
    /\ op = "update_agent_files" =>
         /\ Cardinality(Removed) <= 1
         /\ \A a \in Removed : a.name = Last(args.book_name)
         /\ IsPrefix(pre.vector_stores, vector_stores)

\* delete_assistant, called with another path of the same last component,
\* removed the assistant an earlier call created, among others, and left the
\* vector store of that call
C12_Witness ==
    /\ op = "delete_assistant"
    /\ args.book_name # TheBook
    /\ Len(pre.assistants) >= 2
    /\ Cardinality(Removed) = 1
    /\ \A a \in Removed : a.vector_store_ids # <<>>
    /\ \E v \in Range(vector_stores) : v.name = TheBook \o <<" Docs">>

\* create_or_get_assistant, called with another path of the same last
\* component, returned the assistant an earlier call created
C12_WitnessSharedName ==
    /\ op = "create_or_get_assistant"
    /\ pc = "idle"
    /\ ret.kind = "returned"
    /\ ret.object \in Range(pre.assistants)
    /\ \E v \in Range(vector_stores) :
         /\ ret.object.vector_store_ids = <<v.id>>
         /\ v.name # args.book_name \o <<" Docs">>

\* update_agent_files replaced the one assistant of the name
C12_WitnessUpdated ==
    /\ op = "update_agent_files"
    /\ pc = "idle"
    /\ ret.kind = "returned"
    /\ Cardinality(Removed) = 1
    /\ FirstMatch(assistants, Last(args.book_name)) # 0

====
